---- MODULE Spec2Model ----
(***************************************************************************)
(* A model of parse_oif.py: the command-line entry point, oif_to_dir_tree  *)
(* and z_to_string.  One run of the script is a state machine whose state  *)
(* is the job descriptor, the decoded OIF file, the file system under the  *)
(* output root, the locals of oif_to_dir_tree and the position in the      *)
(* code.  Python strings are sequences of one-character strings, so that   *)
(* str(), str.lower(), list.sort() on strings and the os.path functions    *)
(* are computed character by character as Python computes them.            *)
(***************************************************************************)
EXTENDS Integers, Sequences, FiniteSets, TLC

VARIABLES
    input_data,      \* the job descriptor as loaded by json.load (main)
    oif,             \* the opened OIF file: mainfile tree, tiffs.axes, shape
    dirs,            \* file system: the set of paths that are directories
    files,           \* file system: path -> content of every regular file
    pc,              \* position in the script
    call,            \* the arguments of oif_to_dir_tree
    metadata,        \* local: the Metadata Record being built
    base_name,       \* local
    base_dir,        \* local
    channel_idx,     \* local
    z_idx,           \* local
    channel,         \* local: loop variable of the channel loop
    z,               \* local: loop variable of the slice loop
    status,          \* the exit status of the process, -1 while running
    err,             \* the uncaught exception that ended the run, if any
    dirs0,           \* history: dirs at the start of the run
    files0,          \* history: files at the start of the run
    made,            \* history: the makedirs calls of this run, in order
    saved,           \* history: the imsave calls of this run, in order
    typed,           \* history: the operator's answer to the last prompt
    dumps            \* history: how many times metadata.json was written

vars == <<input_data, oif, dirs, files, pc, call, metadata,
          base_name, base_dir, channel_idx, z_idx, channel, z, status, err,
          dirs0, files0, made, saved, typed, dumps>>

-----------------------------------------------------------------------------
(* Bounds of the model.                                                    *)

MaxChannels == 2     \* channels of the image volume in Spec
MaxDepth == 3        \* Z-axis length in Spec
MaxStack == 101      \* Z-axis length in SpecStack
MaxStains == 11      \* entries of the stains mapping in SpecStains

-----------------------------------------------------------------------------
(* Python strings.                                                         *)

\* The printable ASCII characters in code-point order, from 32 (space); the
\* double quote, the backslash and the backquote are spelled out.
Ascii ==
    <<" ", "!", "dquote", "#", "$", "%", "&", "'", "(", ")", "*", "+", ",", "-",
      ".", "/", "0", "1", "2", "3", "4", "5", "6", "7", "8", "9", ":", ";",
      "<", "=", ">", "?", "@", "A", "B", "C", "D", "E", "F", "G", "H", "I",
      "J", "K", "L", "M", "N", "O", "P", "Q", "R", "S", "T", "U", "V", "W",
      "X", "Y", "Z", "[", "bslash", "]", "^", "_", "bquote", "a", "b", "c", "d", "e",
      "f", "g", "h", "i", "j", "k", "l", "m", "n", "o", "p", "q", "r", "s",
      "t", "u", "v", "w", "x", "y", "z", "{", "|", "}", "~">>

\* ord(ch) - 31
ord(ch) == CHOOSE i \in DOMAIN Ascii : Ascii[i] = ch

\* s < t for Python strings: code-point lexicographic order, decided at the
\* first position where the two differ
StrLess(s, t) ==
    LET n == IF Len(s) < Len(t) THEN Len(s) ELSE Len(t)
        differ == {i \in 1..n : s[i] # t[i]}
        first == CHOOSE i \in differ : \A j \in differ : i <= j
    IN  IF differ = {} THEN Len(s) < Len(t)
        ELSE ord(s[first]) < ord(t[first])

\* str(n) for an integer n >= 0
RECURSIVE str(_)
str(n) ==
    IF n < 10 THEN <<Ascii[17 + n]>>
    ELSE str(n \div 10) \o <<Ascii[17 + (n % 10)]>>

\* ch * n
RECURSIVE Repeat(_, _)
Repeat(ch, n) == IF n <= 0 THEN <<>> ELSE <<ch>> \o Repeat(ch, n - 1)

\* s.lower()
lower(s) ==
    [i \in DOMAIN s |->
        IF ord(s[i]) >= ord("A") /\ ord(s[i]) <= ord("Z")
        THEN Ascii[ord(s[i]) + 32] ELSE s[i]]

\* list.sort() on a list of distinct strings, given as the set of its items
RECURSIVE sort(_)
sort(S) ==
    IF S = {} THEN <<>>
    ELSE LET m == CHOOSE x \in S : \A y \in S \ {x} : StrLess(x, y)
         IN  <<m>> \o sort(S \ {m})

\* the positions of ch in s
Positions(s, ch) == {i \in DOMAIN s : s[i] = ch}

Max(S) == CHOOSE x \in S : \A y \in S : y <= x

\* s.startswith(p)
StartsWith(s, p) == Len(p) <= Len(s) /\ SubSeq(s, 1, Len(p)) = p

-----------------------------------------------------------------------------
(* os.path, os.makedirs, shutil.rmtree on the modelled file system.        *)

\* path.basename(p)
basename(p) ==
    IF Positions(p, "/") = {} THEN p
    ELSE SubSeq(p, Max(Positions(p, "/")) + 1, Len(p))

\* path.splitext(p)[0]: cut at the last dot, unless that dot only leads the
\* file name
splitext_root(p) ==
    LET sep == IF Positions(p, "/") = {} THEN 0 ELSE Max(Positions(p, "/"))
        dot == IF Positions(p, ".") = {} THEN 0 ELSE Max(Positions(p, "."))
    IN  IF dot > sep /\ \E i \in (sep + 1)..(dot - 1) : p[i] # "."
        THEN SubSeq(p, 1, dot - 1)
        ELSE p

\* path.join(a, b)
join(a, b) ==
    IF StartsWith(b, <<"/">>) THEN b
    ELSE IF a = <<>> \/ a[Len(a)] = "/" THEN a \o b
    ELSE a \o <<"/">> \o b

\* whether q lies below directory p
Under(p, q) == StartsWith(q, p \o <<"/">>)

\* the proper ancestors of p
Ancestors(p) == {SubSeq(p, 1, i - 1) : i \in Positions(p, "/")} \ {<<>>}

\* path.exists(p) in file system (d, f)
exists(d, f, p) == p \in d \/ p \in DOMAIN f

\* makedirs(p) succeeds: p does not exist and no ancestor is a regular file
makedirs_ok(d, f, p) ==
    /\ ~exists(d, f, p)
    /\ \A a \in Ancestors(p) : a \notin DOMAIN f

\* the directories after makedirs(p): p and every missing ancestor
makedirs(d, p) == d \cup Ancestors(p) \cup {p}

\* the directories after shutil.rmtree(p)
rmtree_dirs(d, p) == {q \in d : q # p /\ ~Under(p, q)}

\* the directory is emptied of its subdirectories only
rmtree_files_kept(f, p) == f

\* the files after shutil.rmtree(p)
rmtree_files(f, p) == [q \in {r \in DOMAIN f : ~Under(p, r)} |-> f[q]]

\* the files after writing content c to path p
write(f, p, c) == [q \in DOMAIN f \cup {p} |-> IF q = p THEN c ELSE f[q]]

-----------------------------------------------------------------------------
(* Names the script builds.                                                *)

ChannelStr == <<"C", "h", "a", "n", "n", "e", "l">>
MetadataJson == <<"m", "e", "t", "a", "d", "a", "t", "a", ".", "j", "s", "o", "n">>
DotPng == <<".", "p", "n", "g">>

\* z_to_string without the padding
z_to_string_unpadded(value, max_value) == str(value)

\* z_to_string(value, max_value)
z_to_string(value, max_value) ==
    LET max_str == str(max_value)
        val_str == str(value)
        char_dif == Len(max_str) - Len(val_str)
    IN  IF char_dif > 0 THEN Repeat("0", char_dif) \o val_str ELSE val_str

\* base_name of line 112, for a prefix that is a string
BaseName(prefix, in_file) == prefix \o splitext_root(basename(in_file))

\* channel_path of lines 136-137, channel counted from 0
ChannelPath(bdir, ch) == join(bdir, ChannelStr \o str(ch + 1))

\* file_name + '.png' of lines 151-153; zlen is image.shape[z_idx]
FileName(bname, ch, zz, zlen) ==
    bname \o <<"c">> \o str(ch + 1) \o <<"z">> \o z_to_string(zz, zlen) \o DotPng

\* img_file of line 153
ImgFile(bdir, bname, ch, zz, zlen) ==
    join(ChannelPath(bdir, ch), FileName(bname, ch, zz, zlen))

-----------------------------------------------------------------------------
(* Values.                                                                 *)

\* a JSON value that is a string, JSON null, and a key that is not there
Str(s) == [kind |-> "str", val |-> s]
None == [kind |-> "none", val |-> <<>>]
Absent == [kind |-> "absent", val |-> <<>>]

\* what the operator may type at a prompt
Answers ==
    {<<"y">>, <<"Y", "e", "s">>, <<"Y", "E", "S">>,
     <<"n">>, <<>>, <<"y", "e", "s", " ">>}

\* any answer that begins with a y is taken for a yes
confirmed_lenient(confirm) == confirm # <<>> /\ lower(confirm)[1] = "y"

\* lines 119 and 144: confirm.lower() in ['y', 'yes']
confirmed(confirm) == lower(confirm) \in {<<"y">>, <<"y", "e", "s">>}

\* image.shape[i], i counted from 0
shape(i) == oif.shape[i + 1]

\* axes_dict of line 123: label -> position counted from 0 (the last one wins)
axes_dict(label) == Max(Positions(oif.axes, label)) - 1

\* the plane image[a][b]: the first two dimensions of the array are fixed,
\* whatever their labels are
plane(a, b) == (oif.axes[1] :> a) @@ (oif.axes[2] :> b)

\* the plane of the volume at channel c and depth d
plane_at(c, d) == ("C" :> c) @@ ("Z" :> d)

\* out_img of line 155 as written by imsave: the plane, rescaled from nbits
\* to 0..255 and truncated to integers
out_img(pl) == [kind |-> "png", bits |-> oif.ValidBitCounts, plane |-> pl]

-----------------------------------------------------------------------------
(* Ways a run ends.                                                        *)

\* an uncaught exception: traceback, exit status 1
Raise(e) == pc' = "error" /\ err' = e /\ status' = 1

\* sys.exit() without an argument: SystemExit(None), exit status 0
SysExit(line) == pc' = "exit" /\ err' = line /\ status' = 0

\* the script runs to its end
Finish == pc' = "done" /\ status' = 0 /\ err' = err

Goto(l) == pc' = l /\ UNCHANGED <<status, err>>

locals == <<metadata, base_name, base_dir, channel_idx, z_idx, channel, z>>
fs == <<dirs, files>>
history == <<dirs0, files0, made, saved, typed, dumps>>

-----------------------------------------------------------------------------
(* The command-line entry point, lines 218-230, from the loaded descriptor. *)

\* lines 225-227: the stain labels in the order of the sorted keys
sorted_stains(stain_map) ==
    LET stain_keys == sort(DOMAIN stain_map)
    IN  [i \in 1..Len(stain_keys) |-> stain_map[stain_keys[i]]]

Main ==
    /\ pc = "main"
    /\ LET out == IF input_data.out_dir.kind = "str" /\ input_data.out_dir.val = <<>>
                  THEN Str(<<".">>) ELSE input_data.out_dir
           data == [input_data EXCEPT !.out_dir = out]
       IN  /\ input_data' = data
           /\ IF data.prefix.kind = "absent"
              THEN Raise("KeyError: 'prefix'") /\ call' = call
              ELSE /\ call' = [in_file |-> data.oif_file,
                               channel_stains |-> sorted_stains(data.stains),
                               person |-> data.person,
                               hpf |-> data.hpf,
                               treatment |-> data.treatment,
                               out_dir |-> data.out_dir,
                               prefix |-> data.prefix]
                   /\ Goto("oif_to_dir_tree")
    /\ UNCHANGED <<oif, fs, locals, history>>

-----------------------------------------------------------------------------
(* oif_to_dir_tree, lines 87-160.                                          *)

\* lines 87-92: the descriptor's part of the Metadata Record
descriptor_metadata ==
    (<<"Person">> :> call.person) @@ (<<"HPF">> :> call.hpf)
    @@ (<<"Treatment">> :> call.treatment)
    @@ [k \in {<<"Channel", i>> : i \in 1..Len(call.channel_stains)} |->
           [Stain |-> call.channel_stains[k[2]]]]

\* line 105: the positions of 'Z' in AxisOrder, counted from 0
z_axis == {i - 1 : i \in Positions(oif.AxisOrder, "Z")}

\* lines 87-111: build the Metadata Record from the descriptor and mainfile
BuildMetadata ==
    /\ pc = "oif_to_dir_tree"
    /\ LET m1 == descriptor_metadata
           m2 == m1 @@ (<<"CaptureDateTime">> :> oif.ImageCaputreDate)
           m3 == m2 @@ (<<"HeightConvert">> :> <<oif.HeightConvertValue, oif.HeightUnit>>)
                    @@ (<<"WidthConvert">> :> <<oif.WidthConvertValue, oif.WidthUnit>>)
           z0 == CHOOSE i \in z_axis : \A j \in z_axis : i <= j
           m4 == m3 @@ (<<"DepthConvert">> :>
                           <<oif.axis[z0].Interval, oif.axis[z0].UnitName>>)
       IN  IF oif.missing = "ImageCaputreDate"
           THEN metadata' = m1 /\ Raise("KeyError: 'ImageCaputreDate'")
           ELSE IF z_axis = {}
           THEN metadata' = m3 /\ Raise("IndexError: list index out of range")
           ELSE IF oif.missing = "Interval"
           THEN metadata' = m3 /\ Raise("KeyError: 'Interval'")
           ELSE metadata' = m4 /\ Goto("base_dir")
    /\ UNCHANGED <<input_data, oif, fs, call, base_name, base_dir, channel_idx,
                   z_idx, channel, z, history>>

\* lines 112-116: name the parent directory, create it when it is not there
MakeBaseDir ==
    /\ pc = "base_dir"
    /\ IF call.prefix.kind # "str"
       THEN /\ Raise("TypeError: unsupported operand type(s) for +")
            /\ UNCHANGED <<base_name, base_dir, fs, made>>
       ELSE LET bname == BaseName(call.prefix.val, call.in_file)
                bdir == join(call.out_dir.val, bname)
            IN  /\ base_name' = bname
                /\ IF call.out_dir.kind # "str"
                   THEN /\ Raise("TypeError: expected str, bytes or os.PathLike object")
                        /\ UNCHANGED <<base_dir, fs, made>>
                   ELSE /\ base_dir' = bdir
                        /\ IF ~exists(dirs, files, bdir)
                           THEN IF makedirs_ok(dirs, files, bdir)
                                THEN /\ dirs' = makedirs(dirs, bdir)
                                     /\ made' = Append(made, bdir)
                                     /\ files' = files
                                     /\ Goto("axes")
                                ELSE /\ Raise("NotADirectoryError")
                                     /\ UNCHANGED <<fs, made>>
                           ELSE Goto("base_prompt") /\ UNCHANGED <<fs, made>>
    /\ UNCHANGED <<input_data, oif, call, metadata, channel_idx, z_idx, channel,
                   z, dirs0, files0, saved, typed, dumps>>

\* lines 117-120: the parent directory exists; ask, and leave on a refusal
BasePrompt ==
    /\ pc = "base_prompt"
    /\ \E confirm \in Answers :
          /\ typed' = confirm
          /\ IF ~confirmed(confirm) THEN SysExit("sys.exit() at line 120")
             ELSE Goto("axes")
    /\ UNCHANGED <<input_data, oif, fs, call, locals, dirs0, files0, made, saved,
                   dumps>>

\* lines 123-131: find the channel axis and the z axis of the image array
LocateAxes ==
    /\ pc = "axes"
    /\ IF Positions(oif.axes, "C") = {}
       THEN Raise("ValueError: Error: No channel axis found.")
            /\ UNCHANGED <<channel_idx, z_idx, channel>>
       ELSE /\ channel_idx' = axes_dict("C")
            /\ IF Positions(oif.axes, "Z") = {}
               THEN Raise("ValueError: Error: No z-axis found.")
                    /\ UNCHANGED <<z_idx, channel>>
               ELSE z_idx' = axes_dict("Z") /\ channel' = 0 /\ Goto("channel")
    /\ UNCHANGED <<input_data, oif, fs, call, metadata, base_name, base_dir, z,
                   history>>


\* the channel loop of line 135 has run dry after the first channel
ChannelsDone_first == channel >= 1

\* line 135: range(image.shape[channel_idx]) has no channel left
ChannelsDone == channel = shape(channel_idx)

\* lines 135-140: next channel; create its subdirectory when it is not there
ChannelLoop ==
    /\ pc = "channel"
    /\ IF ChannelsDone
       THEN Goto("dump") /\ UNCHANGED <<fs, made, z>>
       ELSE LET channel_path == ChannelPath(base_dir, channel)
            IN  IF ~exists(dirs, files, channel_path)
                THEN IF makedirs_ok(dirs, files, channel_path)
                     THEN /\ dirs' = makedirs(dirs, channel_path)
                          /\ made' = Append(made, channel_path)
                          /\ files' = files
                          /\ z' = 0
                          /\ Goto("slice")
                     ELSE Raise("NotADirectoryError") /\ UNCHANGED <<fs, made, z>>
                ELSE Goto("channel_prompt") /\ UNCHANGED <<fs, made, z>>
    /\ UNCHANGED <<input_data, oif, call, metadata, base_name, base_dir,
                   channel_idx, z_idx, channel, dirs0, files0, saved, typed, dumps>>

\* lines 142-147: the subdirectory exists; ask, leave on a refusal, else
\* delete it with all it holds and create it again
ChannelPrompt ==
    /\ pc = "channel_prompt"
    /\ LET channel_path == ChannelPath(base_dir, channel)
       IN  \E confirm \in Answers :
              /\ typed' = confirm
              /\ IF ~confirmed(confirm)
                 THEN SysExit("sys.exit() at line 145") /\ UNCHANGED <<fs, made, z>>
                 ELSE IF channel_path \notin dirs
                 THEN Raise("NotADirectoryError") /\ UNCHANGED <<fs, made, z>>
                 ELSE /\ dirs' = makedirs(rmtree_dirs(dirs, channel_path), channel_path)
                      /\ files' = rmtree_files(files, channel_path)
                      /\ made' = Append(made, channel_path)
                      /\ z' = 0
                      /\ Goto("slice")
    /\ UNCHANGED <<input_data, oif, call, metadata, base_name, base_dir,
                   channel_idx, z_idx, channel, dirs0, files0, saved, dumps>>

\* lines 150-156: write the next slice of the channel; imsave may fail, and
\* a failed imsave may leave a truncated file behind
Slice ==
    /\ pc = "slice"
    /\ IF z = shape(z_idx)
       THEN /\ channel' = channel + 1
            /\ Goto("channel")
            /\ UNCHANGED <<files, saved, z>>
       ELSE IF channel >= shape(0) \/ z >= shape(1)
       THEN /\ Raise("IndexError: index out of bounds")
            /\ UNCHANGED <<files, saved, z, channel>>
       ELSE LET img_file == ImgFile(base_dir, base_name, channel, z, shape(z_idx))
                img == out_img(plane(channel, z))
            IN  \E outcome \in {"saved", "fails", "fails_truncated"} :
                   IF outcome = "saved"
                   THEN /\ files' = write(files, img_file, img)
                        /\ saved' = Append(saved, [channel |-> channel, z |-> z,
                                                   path |-> img_file])
                        /\ z' = z + 1
                        /\ Goto("slice")
                        /\ channel' = channel
                   ELSE /\ files' = IF outcome = "fails" THEN files
                                    ELSE write(files, img_file,
                                               [img EXCEPT !.kind = "truncated"])
                        /\ Raise("OSError: imsave")
                        /\ UNCHANGED <<saved, z, channel>>
    /\ UNCHANGED <<input_data, oif, dirs, call, metadata, base_name, base_dir,
                   channel_idx, z_idx, dirs0, files0, made, typed, dumps>>

\* lines 159-160: write metadata.json; open may fail, and a dump that fails
\* leaves a truncated file behind
Dump ==
    /\ pc = "dump"
    /\ LET meta_path == join(base_dir, MetadataJson)
       IN  \E outcome \in {"written", "open_fails", "dump_fails"} :
              IF meta_path \in dirs \/ outcome = "open_fails"
              THEN Raise("OSError: open") /\ UNCHANGED <<files, dumps>>
              ELSE IF outcome = "dump_fails"
              THEN /\ files' = write(files, meta_path, <<>>)
                   /\ dumps' = dumps + 1
                   /\ Raise("OSError: json.dump")
              ELSE /\ files' = write(files, meta_path, metadata)
                   /\ dumps' = dumps + 1
                   /\ Finish
    /\ UNCHANGED <<input_data, oif, dirs, call, locals, dirs0, files0, made, saved,
                   typed>>

Next ==
    \/ Main
    \/ BuildMetadata
    \/ MakeBaseDir
    \/ BasePrompt
    \/ LocateAxes
    \/ ChannelLoop
    \/ ChannelPrompt
    \/ Slice
    \/ Dump


-----------------------------------------------------------------------------
(* The inputs of a run: the job descriptor, the OIF file, and what is on   *)
(* disk under the output root before the run.                              *)

InFile == <<"/", "d", "/", "e", ".", "o", "i", "f">>

\* a descriptor with stains "1".."n"; the label of channel i is "s<i>"
Descriptor(prefix, out_dir, n, person, hpf, treatment) ==
    [oif_file |-> InFile,
     stains |-> [k \in {str(i) : i \in 1..n} |-> <<"s">> \o k],
     person |-> person, hpf |-> hpf, treatment |-> treatment,
     out_dir |-> out_dir, prefix |-> prefix]

\* an OIF file: the entries of mainfile the script reads (missing names one
\* that is not there), the axes of the image array and its shape
OifFile(missing, axis_order, axes, nc, nz) ==
    [missing |-> missing,
     ImageCaputreDate |-> "2019-03-01 10:00:00",
     HeightConvertValue |-> 3, HeightUnit |-> "um",
     WidthConvertValue |-> 3, WidthUnit |-> "um",
     ValidBitCounts |-> 12,
     AxisOrder |-> axis_order,
     axis |-> [i \in 0..(Len(axis_order) - 1) |->
                  [Interval |-> 100 * (i + 1), UnitName |-> "nm"]],
     axes |-> axes,
     shape |-> [i \in DOMAIN axes |->
                   IF axes[i] = "C" THEN nc ELSE IF axes[i] = "Z" THEN nz ELSE 2]]

Junk == [kind |-> "junk", bits |-> 0, plane |-> <<>>]
StaleMetadata == (<<"Person">> :> "earlier run")

\* what one channel subdirectory holds before the run: nothing ("absent"),
\* a directory with a foreign file and a slice of an earlier run ("dir"),
\* or a regular file of that name ("file")
ChannelDirs(bdir, kinds) ==
    {ChannelPath(bdir, k - 1) : k \in {j \in DOMAIN kinds : kinds[j] = "dir"}}

RECURSIVE ChannelFiles(_, _, _, _, _)
ChannelFiles(bdir, bname, kinds, nz, k) ==
    IF k = 0 THEN <<>>
    ELSE LET cp == ChannelPath(bdir, k - 1)
             rest == ChannelFiles(bdir, bname, kinds, nz, k - 1)
         IN  IF kinds[k] = "file" THEN (cp :> Junk) @@ rest
             ELSE IF kinds[k] = "dir"
             THEN (join(cp, <<"j", "u", "n", "k">>) :> Junk)
                  @@ (ImgFile(bdir, bname, k - 1, 0, nz) :>
                         [kind |-> "png", bits |-> 8, plane |-> plane_at(k - 1, 0)])
                  @@ rest
             ELSE rest

Start(desc, o, nz, base_kind, kinds, stale) ==
    LET root == IF desc.out_dir.val = <<>> THEN <<".">> ELSE desc.out_dir.val
        bname == BaseName(desc.prefix.val, desc.oif_file)
        bdir == join(root, bname)
        d == {root} \cup (IF base_kind = "dir"
                          THEN {bdir} \cup ChannelDirs(bdir, kinds) ELSE {})
        f == IF base_kind = "file" THEN (bdir :> Junk)
             ELSE IF base_kind = "dir"
             THEN (IF stale THEN (join(bdir, MetadataJson) :> StaleMetadata) ELSE <<>>)
                  @@ ChannelFiles(bdir, bname, kinds, nz, Len(kinds))
             ELSE <<>>
    IN  /\ input_data = desc
        /\ oif = o
        /\ dirs = d
        /\ files = f
        /\ dirs0 = d
        /\ files0 = f
        /\ pc = "main"
        /\ call = [in_file |-> <<>>, channel_stains |-> <<>>, person |-> "",
                   hpf |-> 0, treatment |-> "", out_dir |-> None, prefix |-> None]
        /\ metadata = <<>>
        /\ base_name = <<>>
        /\ base_dir = <<>>
        /\ channel_idx = 0
        /\ z_idx = 0
        /\ channel = 0
        /\ z = 0
        /\ status = -1
        /\ err = ""
        /\ made = <<>>
        /\ saved = <<>>
        /\ typed = <<>>
        /\ dumps = 0

Prefixes == {Absent, None, Str(<<>>), Str(<<"p", "_">>)}
OutDirs == {Str(<<>>), Str(<<"o", "u", "t">>)}
AxisOrders == {<<"X", "Y", "Z", "C">>, <<"X", "Y", "C">>}
Axes == {<<"C", "Z", "Y", "X">>, <<"Z", "C", "Y", "X">>, <<"C", "Y", "X">>,
         <<"Z", "Y", "X">>}
Kinds == {"absent", "dir", "file"}

\* a run on a small volume, with every kind of descriptor, file and disk
Init ==
    \E prefix \in Prefixes, out_dir \in OutDirs,
       missing \in {"none", "ImageCaputreDate", "Interval"},
       axis_order \in AxisOrders, axes \in Axes,
       nc \in 1..MaxChannels, nz \in 1..MaxDepth,
       base_kind \in Kinds, kinds \in [1..MaxChannels -> Kinds],
       stale \in BOOLEAN :
        /\ base_kind # "dir" => (stale = FALSE /\ \A k \in DOMAIN kinds : kinds[k] = "absent")
        /\ Start(Descriptor(prefix, out_dir, nc, "A", 6, "none"),
                 OifFile(missing, axis_order, axes, nc, nz),
                 nz, base_kind, kinds, stale)

Spec == Init /\ [][Next]_vars

\* a run on a one-channel volume with a tall Z axis into an output root
\* that holds nothing yet, so that no prompt is ever reached
InitStack ==
    \E nz \in 1..MaxStack :
        Start(Descriptor(Str(<<>>), Str(<<>>), 1, "A", 6, "none"),
              OifFile("none", <<"X", "Y", "Z", "C">>, <<"C", "Z", "Y", "X">>, 1, nz),
              nz, "absent", <<"absent">>, FALSE)

NextStack ==
    \/ Main
    \/ BuildMetadata
    \/ MakeBaseDir
    \/ LocateAxes
    \/ ChannelLoop
    \/ Slice
    \/ Dump

SpecStack == InitStack /\ [][NextStack]_vars

\* a run on a one-slice volume with a long stains mapping
InitStains ==
    \E n \in 1..MaxStains, person \in {"A", "B"}, hpf \in {6, 24},
       treatment \in {"none", "dmso"}, base_kind \in {"absent", "dir"},
       kind \in {"absent", "dir"} :
        /\ base_kind = "absent" => kind = "absent"
        /\ Start(Descriptor(Str(<<>>), Str(<<>>), n, person, hpf, treatment),
                 OifFile("none", <<"X", "Y", "Z", "C">>, <<"C", "Z", "Y", "X">>, 1, 1),
                 1, base_kind, <<kind>>, FALSE)

SpecStains == InitStains /\ [][Next]_vars


-----------------------------------------------------------------------------
(* What the claims speak of.                                               *)

\* the run is over
Ended == pc \in {"done", "exit", "error"}

\* N and L: the lengths of the Channel axis and of the Z axis of the volume
NChannels == oif.shape[Max(Positions(oif.axes, "C"))]
ZLength == oif.shape[Max(Positions(oif.axes, "Z"))]

\* the regular files of file system f below directory p
FilesIn(f, p) == {q \in DOMAIN f : Under(p, q)}

\* the directories of d below directory p
DirsIn(d, p) == {q \in d : Under(p, q)}

\* the imsave calls of this run for channel c and depth d
Saves(c, d) == {i \in DOMAIN saved : saved[i].channel = c /\ saved[i].z = d}

\* the path of metadata.json of this run
MetaPath == join(base_dir, MetadataJson)

\* file p is the same in file systems f and g: there in both with the same
\* content, or in neither
SameFile(f, g, p) ==
    /\ p \in DOMAIN f <=> p \in DOMAIN g
    /\ p \in DOMAIN f => f[p] = g[p]

\* the depth suffix of a slice file name: between the last z and ".png"
DepthSuffix(path) == SubSeq(path, Max(Positions(path, "z")) + 1, Len(path) - Len(DotPng))

\* an answer that is y or yes in any case
IsYes(answer) == lower(answer) \in {<<"y">>, <<"y", "e", "s">>}

-----------------------------------------------------------------------------
\* C1: after a run that completes, every channel subdirectory Channel1..
\* ChannelN holds exactly one image file per depth index 0..L-1 (the one
\* imsave wrote for that channel and depth) and nothing else, whether the
\* subdirectory was absent or held files before; and whenever the first
\* slice of a channel is about to be written its subdirectory is empty.
C1_OneFilePerDepth ==
    /\ pc = "done" =>
          \A c \in 0..(NChannels - 1) :
              LET cp == ChannelPath(base_dir, c)
              IN  /\ cp \in dirs
                  /\ DirsIn(dirs, cp) = {}
                  /\ \A d \in 0..(ZLength - 1) : Cardinality(Saves(c, d)) = 1
                  /\ FilesIn(files, cp) =
                        {saved[i].path : i \in {j \in DOMAIN saved : saved[j].channel = c}}
                  /\ Cardinality(FilesIn(files, cp)) = ZLength
                  /\ \A q \in FilesIn(files, cp) : files[q].kind = "png"
    /\ (pc = "slice" /\ z = 0) =>
          LET cp == ChannelPath(base_dir, channel)
          IN  cp \in dirs /\ FilesIn(files, cp) = {} /\ DirsIn(dirs, cp) = {}

\* a completed run over two channels and two depths, one of whose channel
\* subdirectories held files before and one of which was absent
C1_Witness ==
    /\ pc = "done"
    /\ NChannels >= 2 /\ ZLength >= 2
    /\ \E c \in 0..(NChannels - 1) : FilesIn(files0, ChannelPath(base_dir, c)) # {}
    /\ \E c \in 0..(NChannels - 1) : ChannelPath(base_dir, c) \notin dirs0

\* C2: a step from the channel prompt with an answer other than y/yes ends
\* the process, changes nothing on disk (the subdirectory still holds what
\* it held before the run), writes no slice and no metadata.json; and the
\* process takes no step once it has exited.
C2_DeclineLeavesUntouched ==
    [][/\ (pc = "channel_prompt" /\ ~IsYes(typed')) =>
             LET cp == ChannelPath(base_dir, channel)
             IN  /\ pc' = "exit"
                 /\ files' = files /\ dirs' = dirs
                 /\ FilesIn(files', cp) = FilesIn(files0, cp)
                 /\ \A q \in FilesIn(files', cp) : files'[q] = files0[q]
                 /\ saved' = saved
                 /\ \A i \in DOMAIN saved' : saved'[i].channel < channel
                 /\ dumps' = 0
                 /\ SameFile(files', files0, MetaPath)
       /\ pc # "exit"]_vars

\* the operator has refused to overwrite a channel subdirectory that holds
\* files, after an earlier channel was written
C2_Witness ==
    /\ pc = "exit" /\ err = "sys.exit() at line 145"
    /\ channel >= 1
    /\ FilesIn(files, ChannelPath(base_dir, channel)) # {}
    /\ typed = <<"y", "e", "s", " ">>


-----------------------------------------------------------------------------
\* C3 (as claimed): the depth suffix of every slice file name written for a
\* Z axis of length L has exactly len(str(L-1)) characters.
C3_SuffixWidthOfMaxIndex ==
    \A i \in DOMAIN saved :
        Len(DepthSuffix(saved[i].path)) = Len(str(ZLength - 1))

\* C4: within one channel subdirectory the file name written for depth z1
\* sorts strictly before the one written for depth z2 whenever z1 < z2, and
\* distinct depths have distinct file names.  Stated of the slice written
\* last against every slice written before it; every slice is the last one
\* in some state.
C4_NamesSortByDepth ==
    saved # <<>> =>
        LET last == saved[Len(saved)]
        IN  \A i \in 1..(Len(saved) - 1) :
                saved[i].channel = last.channel =>
                    /\ saved[i].z < last.z <=>
                          StrLess(basename(saved[i].path), basename(last.path))
                    /\ saved[i].z # last.z => saved[i].path # last.path

\* the slice of depth 100 has been written after those of depths 9 and 10
C4_Witness ==
    /\ saved # <<>> /\ saved[Len(saved)].z = 100
    /\ \E i, j \in DOMAIN saved : saved[i].z = 9 /\ saved[j].z = 10

-----------------------------------------------------------------------------
\* C5 (as claimed): no run over a volume with a Channel and a Z axis dies on
\* an index into the volume, and in a completed run the image written for
\* channel c and depth d is the plane of the volume at channel c, depth d.
C5_PlaneOfChannelAndDepth ==
    /\ ~(pc = "error" /\ err = "IndexError: index out of bounds")
    /\ pc = "done" =>
          \A c \in 0..(NChannels - 1), d \in 0..(ZLength - 1) :
              \E i \in Saves(c, d) : files[saved[i].path].plane = plane_at(c, d)

-----------------------------------------------------------------------------
\* C6 (as claimed): when the AxisOrder entry or the axes of the image array
\* hold no 'Z' (and nothing else is wrong with the inputs and the parent
\* directory is not there), the run ends in the error that names the z-axis
\* and has created no directory.
C6_MissingZBeforeAnyDirectory ==
    (/\ Ended
     /\ Positions(oif.AxisOrder, "Z") = {} \/ Positions(oif.axes, "Z") = {}
     /\ Positions(oif.axes, "C") # {}
     /\ oif.missing = "none"
     /\ input_data.prefix.kind = "str"
     /\ dirs0 = {IF input_data.out_dir.val = <<>> THEN <<".">> ELSE input_data.out_dir.val})
    => /\ pc = "error"
       /\ err = "ValueError: Error: No z-axis found."
       /\ made = <<>>
       /\ dirs = dirs0

-----------------------------------------------------------------------------
\* C7 (as claimed): a run that ends because the operator refused a prompt
\* ends with a non-zero exit status.
C7_DeclineExitsNonZero == pc = "exit" => status # 0

-----------------------------------------------------------------------------
\* C8 (as claimed): once the Metadata Record is built it holds exactly one
\* Channel<i> entry for each key "i" of the stains mapping, Stain of
\* Channel<i> is the label the descriptor maps to "i", and Person, HPF and
\* Treatment are the descriptor's.
C8_StainOfItsChannel ==
    pc = "base_dir" =>
        LET n == Cardinality(DOMAIN input_data.stains)
        IN  /\ {k \in DOMAIN metadata : Len(k) = 2} = {<<"Channel", i>> : i \in 1..n}
            /\ \A i \in 1..n :
                  metadata[<<"Channel", i>>].Stain = input_data.stains[str(i)]
            /\ metadata[<<"Person">>] = input_data.person
            /\ metadata[<<"HPF">>] = input_data.hpf
            /\ metadata[<<"Treatment">>] = input_data.treatment

-----------------------------------------------------------------------------
\* C9 (as claimed): a descriptor whose prefix is absent, null or empty never
\* ends the run in an error over the prefix, the parent directory is then
\* named by the base name of the source file alone, and an empty out_dir
\* makes '.' the output root.
C9_PrefixDefaultsToEmpty ==
    (input_data.prefix.kind # "str" \/ input_data.prefix.val = <<>>) =>
        /\ ~(pc = "error" /\ err \in {"KeyError: 'prefix'",
                                      "TypeError: unsupported operand type(s) for +"})
        /\ pc \in {"base_prompt", "axes"} =>
              /\ base_name = <<"e">>
              /\ base_dir \in {<<".", "/", "e">>, <<"o", "u", "t", "/", "e">>}

-----------------------------------------------------------------------------
\* C10: metadata.json is written at most once in a run, and only when the
\* image of every (channel, depth) pair has been written; as long as it has
\* not been written, and so in every run that ends early for a missing
\* axis, a missing key, a refused prompt or a failed slice write, the
\* metadata.json on disk is the one that was there before the run.
C10_MetadataWrittenLast ==
    /\ dumps <= 1
    /\ dumps >= 1 =>
          \A c \in 0..(NChannels - 1), d \in 0..(ZLength - 1) : Saves(c, d) # {}
    /\ dumps = 0 => SameFile(files, files0, join(
           join(IF input_data.out_dir.val = <<>> THEN <<".">> ELSE input_data.out_dir.val,
                BaseName(input_data.prefix.val, input_data.oif_file)),
           MetadataJson))
    /\ (pc \in {"exit", "error"} /\ err \notin {"OSError: open", "OSError: json.dump"})
          => dumps = 0

\* a completed run over two channels has replaced the metadata.json of an
\* earlier run
C10_Witness ==
    /\ pc = "done" /\ dumps = 1
    /\ NChannels >= 2
    /\ MetaPath \in DOMAIN files0
    /\ files[MetaPath] # files0[MetaPath]

====
